---- MODULE Spec2Model ----
(***************************************************************************)
(* CrudeIntel 2.0: the alerting pipeline.                                  *)
(*                                                                         *)
(* Text that the code inspects (titles, descriptions, links, the AI's      *)
(* sentiment line) is a sequence of one-character strings, so that         *)
(* concatenation, lower-casing and substring search are computed as the    *)
(* code computes them.  Time is counted in quarter hours.                  *)
(***************************************************************************)
EXTENDS Integers, Sequences, FiniteSets, TLC

VARIABLES
    now,                     \* datetime.now(timezone.utc), in quarter hours
    alerted_articles_cache,  \* telegram_alerts.py: module-level set of article ids
    TELEGRAM_BOTS,           \* telegram_alerts.py: bot -> [token, chat_id] present or not
    GEMINI_AVAILABLE,        \* summarizer.py: whether the AI provider is configured
    pc,                      \* where the running pass stands
    kind,                    \* which entry point runs: "job", "dash", "direct", "none"
    all_articles,            \* the merged adapter output of the pass
    recent_articles,         \* what filter_last_hour_articles kept of it
    articles,                \* unique_articles / final_articles / the list given to send_automatic_alerts
    i,                       \* loop index (1-based)
    cutoff_time,             \* send_automatic_alerts: cutoff computed at the start of the pass
    total_alerts_sent,       \* send_automatic_alerts: the count it returns
    outcome,                 \* how the pass ended
    passes,                  \* passes started so far
    \* history (observations about the run, never read by an action's guard)
    rss_result,              \* what the RSS adapter did in this pass
    api_result,              \* what the NewsAPI adapter did in this pass
    filter_now,              \* the clock value filter_last_hour_articles read
    enrich_failed,           \* indexes of articles whose enrichment call failed in this pass
    ever_alerted,            \* every id ever added to alerted_articles_cache
    confirmed_ids,           \* ids for which a Notifier call returned >= 1
    failed_ids,              \* ids for which a Notifier call returned 0
    pass_sent,               \* <<title, link>> of every alert counted in this pass
    last_sends,              \* successful_sends of the last Notifier call (-1: none yet)
    last_attempts,           \* the bots the last Notifier call tried, in order
    last_delivered,          \* the bots whose send_message went through in that call
    undelayed,               \* the bots a message went through to since the pass last slept
    \* two dashboard sessions that run send_automatic_alerts in the same process
    sessions,                \* session -> where its pass stands and its locals
    invoked,                 \* <<session, article id>> of every Notifier invocation
    \* the document store and the adapters that persist into it
    documents,               \* the "articles" collection: a set of [name, fields]
    adapter,                 \* the run of fetch_news / fetch_newsapi_articles under way
    inserted_ok,             \* links for which insert_article has returned True
    last_query,              \* the last check_article_exists / get_recent_articles call
    analysis,                \* a call of analyze_article_live by a caller of its own
    relevance,               \* a call of is_crude_related by a caller of its own
    unalerted,               \* a call of get_unalerted_articles, with the collection it met
    \* one dashboard session, script run after script run
    session_state,           \* st.session_state: articles_cache, last_fetch_time, auto_alerts_enabled
    script                   \* the script run under way: where it stands, current_time, its fetches

vars == << now, alerted_articles_cache, TELEGRAM_BOTS, GEMINI_AVAILABLE, pc, kind,
           all_articles, recent_articles, articles, i, cutoff_time, total_alerts_sent, outcome, passes,
           rss_result, api_result, filter_now, enrich_failed, ever_alerted,
           confirmed_ids, failed_ids, pass_sent, last_sends, last_attempts,
           last_delivered, undelayed, sessions, invoked, documents, adapter, inserted_ok,
           last_query, analysis, relevance, unalerted, session_state, script >>

----------------------------------------------------------------------------
(* Bounds of the model *)

MaxPasses == 2     \* passes in one process lifetime
StartTime == 4     \* the clock when the process starts
MaxTime == 6       \* the clock stops here

(* Program constants *)

AlertWindow == 4   \* timedelta(hours=1), in quarter hours
FetchInterval == 1 \* 900 seconds, in quarter hours

----------------------------------------------------------------------------
(* Text *)

UpperCase == << "A","B","C","D","E","F","G","H","I","J","K","L","M",
                "N","O","P","Q","R","S","T","U","V","W","X","Y","Z" >>
LowerCase == << "a","b","c","d","e","f","g","h","i","j","k","l","m",
                "n","o","p","q","r","s","t","u","v","w","x","y","z" >>

LowerChar(c) ==
    IF \E k \in 1..26 : UpperCase[k] = c
    THEN LowerCase[CHOOSE k \in 1..26 : UpperCase[k] = c]
    ELSE c

\* str.lower()
RECURSIVE Lower(_)
Lower(s) == IF s = << >> THEN << >> ELSE << LowerChar(Head(s)) >> \o Lower(Tail(s))

\* kw in text
Contains(text, kw) ==
    \E p \in 0..(Len(text) - Len(kw)) :
        \A k \in 1..Len(kw) : text[p + k] = kw[k]

----------------------------------------------------------------------------
(* Articles *)

Unset == "<unset>"     \* the key is absent from the article dict
NotAString == "<None>" \* the key holds None (an article read back from the store, not analysed)

\* published_at as the code can meet it: absent or empty, a string fromisoformat
\* rejects, a string without UTC offset (a naive datetime), or an aware datetime.
Missing == [k |-> "missing", t |-> 0]
Bad == [k |-> "bad", t |-> 0]
Naive(t) == [k |-> "naive", t |-> t]
Aware(t) == [k |-> "aware", t |-> t]

T_up == << "O","i","l"," ","u","p" >>
T_oil == << "O","i","l" >>
D_none == << >>
D_drop == << "d","r","o","p" >>
L1 == << "l","1" >>
L2 == << "l","2" >>
NoLink == << >>

RawItem(title, description, link, published_at) ==
    [title |-> title, description |-> description, link |-> link,
     published_at |-> published_at, summary |-> Unset, sentiment |-> Unset]

\* another article than (T_up, L1): "Oil upl" + "1" reads as "Oil up" + "l1" does
R_shifted == RawItem(T_up \o << "l" >>, D_none, << "1" >>, Aware(1))

ApiItems ==
    { RawItem(T_up, D_none, L1, Aware(1)),
      RawItem(T_oil, D_drop, L2, Aware(5)),
      RawItem(T_oil, D_none, L2, Naive(5)),
      RawItem(T_oil, D_none, NoLink, Aware(5)),
      R_shifted }

\* what an ingestion adapter can return
RssFeeds ==
    { << RawItem(T_up, D_none, L1, Aware(1)) >>,
      << RawItem(T_up, D_none, L1, Aware(0)), RawItem(T_up, D_none, L1, Aware(1)) >>,
      << RawItem(T_oil, D_drop, L2, Missing), RawItem(T_up, D_none, L1, Aware(1)) >> }

ApiFeeds == { << >> } \cup { << x >> : x \in ApiItems }

WithSentiment(a, s) == [a EXCEPT !.summary = "given", !.sentiment = s]

\* lists handed straight to send_automatic_alerts (send_alerts_for_recent)
D_bull == WithSentiment(RawItem(T_up, D_none, L1, Aware(1)), "Bullish")
D_bull_old == WithSentiment(RawItem(T_up, D_none, L1, Aware(0)), "Bullish")
D_bear == WithSentiment(RawItem(T_oil, D_drop, L2, Aware(5)), "Bearish")
D_neutral == WithSentiment(RawItem(T_oil, D_drop, L2, Aware(1)), "Neutral")
D_raw == RawItem(T_oil, D_none, L1, Aware(5))
D_bad == WithSentiment(RawItem(T_oil, D_none, L2, Bad), "Bullish")
D_stored == WithSentiment(RawItem(T_oil, D_none, L1, Aware(5)), NotAString)

DirectBatches ==
    { << >>,
      << D_bull >>,
      << D_bull, D_bull >>,
      << D_bull_old, D_bear >>,
      << D_bear, D_bull >>,
      << D_neutral, D_raw >>,
      << D_bad, D_bear >>,
      << D_stored, D_bear >>,
      << WithSentiment(RawItem(T_oil, D_drop, L2, Missing), "Bearish") >>,
      << D_bull, WithSentiment(R_shifted, "Bullish") >> }

\* hashlib.md5((title + link).encode()).hexdigest(): one digest per concatenation
get_article_id(title, link) == << "md5", title \o link >>

ArticleId(a) == get_article_id(a.title, a.link)

\* variant: the key keeps title and link apart
DedupKeySeparated(a) == << a.title, a.link >>

\* article.get('title', '') + article.get('link', '')
DedupKey(a) == a.title \o a.link

----------------------------------------------------------------------------
(* Freshness *)

\* variant: the comparison with the cutoff is not strict
JobAtOrAfterCutoff(t, cutoff) == t >= cutoff

\* auto_alerts.py: published_dt > cutoff
JobAfterCutoff(t, cutoff) == t > cutoff

\* app.py: published_dt > cutoff_time
DashAfterCutoff(t, cutoff) == t > cutoff

\* variant: the age test is left out
NeverTooOld(t, cutoff) == FALSE

\* telegram_alerts.py: published_dt <= cutoff_time ("too old - skipped")
TooOld(t, cutoff) == t <= cutoff

\* One iteration of filter_last_hour_articles in auto_alerts.py: an empty
\* published_at is skipped, a parse error or the TypeError of comparing a naive
\* datetime with the aware cutoff is caught, and the article is not kept.
JobKeeps(a, clock) ==
    /\ a.published_at.k = "aware"
    /\ JobAfterCutoff(a.published_at.t, clock - AlertWindow)

\* The same iteration in app.py.
DashKeeps(a, clock) ==
    /\ a.published_at.k = "aware"
    /\ DashAfterCutoff(a.published_at.t, clock - AlertWindow)

RECURSIVE KeepFrom(_, _, _, _)
KeepFrom(s, j, clock, dash) ==
    IF j > Len(s) THEN << >>
    ELSE LET rest == KeepFrom(s, j + 1, clock, dash)
             keep == IF dash THEN DashKeeps(s[j], clock) ELSE JobKeeps(s[j], clock)
         IN  IF keep THEN << s[j] >> \o rest ELSE rest

\* auto_alerts.py
filter_last_hour_articles(s, clock) == KeepFrom(s, 1, clock, FALSE)

\* app.py
dash_filter_last_hour_articles(s, clock) == KeepFrom(s, 1, clock, TRUE)

----------------------------------------------------------------------------
(* Run-scoped deduplication *)

\* variant: no key is ever found in the dict
KeyAlwaysNew(key, unique) == TRUE

\* key not in unique
KeyIsNew(key, unique) == \A k \in 1..Len(unique) : DedupKey(unique[k]) # key

\* The dict keeps insertion order; list(unique.values()) returns it.
RECURSIVE DedupFrom(_, _, _)
DedupFrom(s, j, unique) ==
    IF j > Len(s) THEN unique
    ELSE IF KeyIsNew(DedupKey(s[j]), unique)
         THEN DedupFrom(s, j + 1, Append(unique, s[j]))
         ELSE DedupFrom(s, j + 1, unique)

Deduplicate(s) == DedupFrom(s, 1, << >>)

----------------------------------------------------------------------------
(* summarizer.py *)

bullish_keywords ==
    << <<"r","i","s","e">>,
       <<"r","i","s","i","n","g">>,
       <<"u","p">>,
       <<"i","n","c","r","e","a","s","e">>,
       <<"i","n","c","r","e","a","s","i","n","g">>,
       <<"b","o","o","s","t">>,
       <<"s","u","r","g","e">>,
       <<"r","a","l","l","y">>,
       <<"g","a","i","n","s">>,
       <<"h","i","g","h","e","r">>,
       <<"g","r","o","w","i","n","g">>,
       <<"p","o","s","i","t","i","v","e">>,
       <<"s","t","r","o","n","g">>,
       <<"b","u","l","l","i","s","h">>,
       <<"r","e","c","o","v","e","r","y">>,
       <<"d","e","m","a","n","d">>,
       <<"g","r","o","w","t","h">>,
       <<"e","x","p","a","n","s","i","o","n">>,
       <<"o","p","t","i","m","i","s","t","i","c">>,
       <<"u","p","w","a","r","d">>,
       <<"i","m","p","r","o","v","e","d">> >>

bearish_keywords ==
    << <<"f","a","l","l">>,
       <<"f","a","l","l","i","n","g">>,
       <<"d","o","w","n">>,
       <<"d","e","c","r","e","a","s","e">>,
       <<"d","e","c","r","e","a","s","i","n","g">>,
       <<"d","r","o","p">>,
       <<"d","e","c","l","i","n","e">>,
       <<"c","r","a","s","h">>,
       <<"l","o","s","s","e","s">>,
       <<"l","o","w","e","r">>,
       <<"n","e","g","a","t","i","v","e">>,
       <<"w","e","a","k">>,
       <<"b","e","a","r","i","s","h">>,
       <<"r","e","c","e","s","s","i","o","n">>,
       <<"o","v","e","r","s","u","p","p","l","y">>,
       <<"g","l","u","t">>,
       <<"c","o","n","c","e","r","n","s">>,
       <<"w","o","r","r","i","e","s">>,
       <<"d","o","w","n","w","a","r","d">>,
       <<"s","l","u","m","p">>,
       <<"p","l","u","n","g","e">> >>

CountIn(keywords, text) ==
    Cardinality({ k \in 1..Len(keywords) : Contains(text, keywords[k]) })

\* variant: the fallback gives up on the keywords
FallbackAlwaysNeutral(bullish_count, bearish_count) == "Neutral"

FallbackSentiment(bullish_count, bearish_count) ==
    IF bullish_count > bearish_count /\ bullish_count > 0 THEN "Bullish"
    ELSE IF bearish_count > bullish_count /\ bearish_count > 0 THEN "Bearish"
    ELSE "Neutral"

FallbackSummary(sentiment) ==
    IF sentiment = "Bullish" THEN "Market indicators suggest positive outlook"
    ELSE IF sentiment = "Bearish" THEN "Market analysis indicates potential downward pressure"
    ELSE "Market sentiment remains neutral with mixed signals"

\* a value that is no string (None, as JSON null comes out of a parser)
NoneValue == << "None" >>

IsStr(x) == x # NoneValue

\* the call ended with an exception instead of a value
Raised == << "raised" >>

\* the try block of analyze_article_fallback raises: title[:50] and
\* title + " " + description are TypeErrors on a value that is no string
FallbackBodyRaises(title, description) == ~IsStr(title) \/ ~IsStr(description)

\* variant: the except clause lets the exception go
FallbackReraises == Raised

\* except Exception: return "Analysis unavailable", "Neutral"
FallbackOnError == << "Analysis unavailable", "Neutral" >>

\* returns <<summary, sentiment>>
analyze_article_fallback(title, description) ==
    IF FallbackBodyRaises(title, description) THEN FallbackOnError
    ELSE
    LET text == Lower(title \o << " " >> \o description)
        sentiment == FallbackSentiment(CountIn(bullish_keywords, text),
                                       CountIn(bearish_keywords, text))
    IN  << FallbackSummary(sentiment), sentiment >>

\* The text of the AI's answer, line by line.  A line that starts with
\* "Summary:" carries the summary (opaque), one that starts with "Sentiment:"
\* carries the sentiment text.
SummaryLine(s) == [head |-> "Summary:", summary |-> s, text |-> << >>]
SentimentLine(t) == [head |-> "Sentiment:", summary |-> "", text |-> t]

W_bullish == << "b","u","l","l","i","s","h" >>
W_bearish == << "b","e","a","r","i","s","h" >>

\* variant: a text that names neither keeps a label of its own
ClassifyOther(sentiment_text) ==
    IF Contains(Lower(sentiment_text), W_bullish) THEN "Bullish"
    ELSE IF Contains(Lower(sentiment_text), W_bearish) THEN "Bearish"
    ELSE "Mixed"

ClassifySentiment(sentiment_text) ==
    IF Contains(Lower(sentiment_text), W_bullish) THEN "Bullish"
    ELSE IF Contains(Lower(sentiment_text), W_bearish) THEN "Bearish"
    ELSE "Neutral"

RECURSIVE ParseLines(_, _, _, _)
ParseLines(lines, j, summary, sentiment) ==
    IF j > Len(lines) THEN << summary, sentiment >>
    ELSE IF lines[j].head = "Summary:"
         THEN ParseLines(lines, j + 1, lines[j].summary, sentiment)
    ELSE IF lines[j].head = "Sentiment:"
         THEN ParseLines(lines, j + 1, summary, ClassifySentiment(lines[j].text))
    ELSE ParseLines(lines, j + 1, summary, sentiment)

ParseResponse(lines) ==
    LET r == ParseLines(lines, 1, "", "Neutral")
    IN  << IF r[1] = "" THEN "AI analysis completed - see full article for details." ELSE r[1],
           r[2] >>

\* the texts model.generate_content(prompt) can answer with
AIReplies ==
    { << SummaryLine("ai summary"),
         SentimentLine(<< "B","u","l","l","i","s","h" >>) >>,
      << SentimentLine(<< "M","i","x","e","d" >>) >> }

\* what the AI call can do: raise (a timeout, a transport error) or answer
AIOutcomes ==
    { [raises |-> TRUE, lines |-> << >>] }
        \cup { [raises |-> FALSE, lines |-> r] : r \in AIReplies }

\* the enrichment call failed: provider not configured, or the AI call raised
EnrichmentFailed(available, ai) == ~available \/ ai.raises

\* the try block of analyze_article_live raises once the provider is there:
\* title[:50] on a value that is no string, or the AI call
LiveBodyRaises(title, ai) == ~IsStr(title) \/ ai.raises

analyze_article_live(title, description, available, ai) ==
    IF ~available THEN analyze_article_fallback(title, description)
    ELSE IF LiveBodyRaises(title, ai) THEN analyze_article_fallback(title, description)
    ELSE ParseResponse(ai.lines)

\* the arguments a caller can hand to analyze_article_live
AnalyzeTitles == { T_up, T_oil, << "f","a","l","l" >>, << >>, NoneValue }
AnalyzeDescriptions == { D_none, D_drop, << "U","p" >>, NoneValue }

NoAnalysis == [called |-> FALSE, title |-> << >>, description |-> << >>,
               ai |-> [raises |-> TRUE, lines |-> << >>], result |-> << >>]

----------------------------------------------------------------------------
(* telegram_alerts.py *)

Bots == 1..3

BotConfigs ==
    { [b \in Bots |-> [token |-> b # 2, chat_id |-> TRUE]],
      [b \in Bots |-> [token |-> b # 3, chat_id |-> b = 1]] }

\* variant: the credentials are not looked at
AlwaysConfigured(bots, b) == TRUE

\* not (not token or not chat_id)
Configured(bots, b) == bots[b].token /\ bots[b].chat_id

ConfiguredBots(bots) == { b \in Bots : Configured(bots, b) }

NoSends == [attempts |-> << >>, successful_sends |-> 0]

\* The loop over TELEGRAM_BOTS from bot b on: a bot missing a credential is
\* skipped; send_message is awaited for each of the others in turn, and when
\* it raises the exception is caught and the loop goes on with the next bot.
\* delivers is the set of bots whose API call goes through.
RECURSIVE SendLoop(_, _, _, _)
SendLoop(bots, delivers, b, r) ==
    IF b > Cardinality(Bots) THEN r
    ELSE IF ~Configured(bots, b) THEN SendLoop(bots, delivers, b + 1, r)
    ELSE SendLoop(bots, delivers, b + 1,
                  [attempts |-> Append(r.attempts, b),
                   successful_sends |-> IF b \in delivers
                                        THEN r.successful_sends + 1
                                        ELSE r.successful_sends])

\* returns successful_sends
send_enhanced_telegram_alert_multi(bots, delivers) ==
    SendLoop(bots, delivers, 1, NoSends).successful_sends

\* sentiment.lower() of article.get('sentiment', '')
SentimentLower(a) ==
    CASE a.sentiment = "Bullish" -> "bullish"
      [] a.sentiment = "Bearish" -> "bearish"
      [] a.sentiment = "Neutral" -> "neutral"
      [] OTHER -> ""

\* variant: every analysed article alerts
AnySentimentAlerts(a) == SentimentLower(a) # ""

\* sentiment.lower() in ['bullish', 'bearish']
SentimentAlerts(a) == SentimentLower(a) \in {"bullish", "bearish"}

\* variant: an article whose published_at cannot be read counts as fresh
PassesCutoffFailOpen(a, cutoff) ==
    a.published_at.k = "aware" => ~TooOld(a.published_at.t, cutoff)

\* The freshness test of send_automatic_alerts: an empty published_at is
\* skipped; a parse error, or the TypeError of comparing a naive datetime with
\* the aware cutoff, lands in the except clause; an old article is skipped.
PassesCutoff(a, cutoff) ==
    /\ a.published_at.k = "aware"
    /\ ~TooOld(a.published_at.t, cutoff)

\* The try block of one iteration raises: fromisoformat rejects the string
\* (ValueError), a naive datetime is compared with the aware cutoff
\* (TypeError), or sentiment.lower() is called on a value that is no string
\* (AttributeError), which happens only once the cutoff test is passed.
IterationRaises(a, cutoff) ==
    \/ a.published_at.k \in {"bad", "naive"}
    \/ PassesCutoff(a, cutoff) /\ a.sentiment = NotAString

\* variant: the exception ends the loop
OnExceptionAbort(ix) == [pc |-> "done", i |-> ix]

\* except Exception as e: print(...); continue
OnException(ix) == [pc |-> "loop", i |-> ix + 1]

\* variant: the duplicate check is left out
NeverAlerted(a, cache) == FALSE

\* article_id in alerted_articles_cache
AlreadyAlerted(a, cache) == ArticleId(a) \in cache

\* variant: the article is marked whatever the Notifier returned
SendAlwaysConfirmed(successful_sends) == successful_sends >= 0

\* if successful_sends > 0
SendConfirmed(successful_sends) == successful_sends > 0

\* variant: the pass goes straight on to the next article
AfterSendNoSleep(successful_sends) == "loop"

\* where the pass stands once the Notifier has returned: asyncio.sleep(3) in
\* the branch "if successful_sends > 0", the next article otherwise
AfterSend(successful_sends) == IF successful_sends > 0 THEN "sleeping" ELSE "loop"

\* variant: the id that is stored is computed from the title alone
MarkTitleOnly(cache, a) == cache \cup { get_article_id(a.title, << >>) }

\* variant: the id is never stored
NotMarked(cache, a) == cache

\* alerted_articles_cache.add(article_id)
MarkAlerted(cache, a) == cache \cup { ArticleId(a) }

----------------------------------------------------------------------------
(* database.py *)

\* A Python value handed to firestore_value: its type and the text str(value)
\* gives (for a str, the string itself).
PyNone == [py |-> "NoneType", v |-> << >>]
PyStr(s) == [py |-> "str", v |-> s]
PyFalse == [py |-> "bool", v |-> << "F","a","l","s","e" >>]
PyTrue == [py |-> "bool", v |-> << "T","r","u","e" >>]

\* firestore_value: the isinstance tests in the order of the code; a bool is
\* an instance of int, so it is caught by the int branch and the bool branch
\* is never reached.
firestore_value(value) ==
    IF value.py = "NoneType" THEN [type |-> "nullValue", v |-> << >>]
    ELSE IF value.py = "str" THEN [type |-> "stringValue", v |-> value.v]
    ELSE IF value.py \in {"int", "bool"} THEN [type |-> "integerValue", v |-> value.v]
    ELSE [type |-> "stringValue", v |-> value.v]

Digits == { "0","1","2","3","4","5","6","7","8","9" }

\* int(text) does not raise ValueError
IntParses(text) == text # << >> /\ \A k \in 1..Len(text) : text[k] \in Digits

\* parse_firestore_doc raises: int() of an integerValue that is no number
ParseRaises(doc) ==
    \E f \in DOMAIN doc.fields :
        doc.fields[f].type = "integerValue" /\ ~IntParses(doc.fields[f].v)

ParseValue(x) ==
    IF x.type = "stringValue" THEN PyStr(x.v)
    ELSE IF x.type = "integerValue" THEN [py |-> "int", v |-> x.v]
    ELSE IF x.type = "booleanValue" THEN [py |-> "bool", v |-> x.v]
    ELSE PyNone

\* parse_firestore_doc: the dict of the fields, with the document id
parse_firestore_doc(doc) ==
    [id |-> doc.name, fields |-> [f \in DOMAIN doc.fields |-> ParseValue(doc.fields[f])]]

\* hashlib.md5(link.encode()).hexdigest(): one digest per link
DocId(link) == << "md5", link >>

\* What make_firestore_request can come back with: the server's answer; {} after
\* a RequestException raised before the server acted (no connection, an HTTP
\* error status); {} after one raised once the server had acted (the answer
\* timed out).
RequestOutcomes == {"ok", "error", "lost"}

\* the server has carried the request out
Applied(outcome_) == outcome_ \in {"ok", "lost"}

\* PATCH documents/articles/{name} without update mask: the document of that
\* name is created, or its fields are replaced by the fields sent
Patch(docs, name, fields) ==
    { d \in docs : d.name # name } \cup { [name |-> name, fields |-> fields] }

\* the "fields" of the document insert_article sends
InsertFields(title, description, source, link, published_at, summary, sentiment, created_at) ==
    [title |-> firestore_value(PyStr(title)),
     description |-> firestore_value(PyStr(description)),
     source |-> firestore_value(PyStr(source)),
     link |-> firestore_value(PyStr(link)),
     published_at |-> firestore_value(PyStr(published_at)),
     summary |-> firestore_value(summary),
     sentiment |-> firestore_value(sentiment),
     alerted |-> firestore_value(PyFalse),
     created_at |-> firestore_value(PyStr(created_at))]

\* variant: the document is named after the title and the link
insert_article_by_title(docs, title, description, source, link, published_at, created_at, outcome_) ==
    [documents |-> IF Applied(outcome_)
                   THEN Patch(docs, DocId(title \o link),
                              InsertFields(title, description, source, link, published_at,
                                           PyNone, PyNone, created_at))
                   ELSE docs,
     result |-> outcome_ = "ok"]

\* insert_article (summary and sentiment left at None, as every caller does):
\* the store afterwards and the value returned, True iff the answer names the
\* document
insert_article(docs, title, description, source, link, published_at, created_at, outcome_) ==
    [documents |-> IF Applied(outcome_)
                   THEN Patch(docs, DocId(link),
                              InsertFields(title, description, source, link, published_at,
                                           PyNone, PyNone, created_at))
                   ELSE docs,
     result |-> outcome_ = "ok"]

\* mark_article_alerted: PATCH of the one field "alerted"
mark_article_alerted(docs, article_id, outcome_) ==
    [documents |-> IF Applied(outcome_)
                   THEN Patch(docs, article_id, [alerted |-> firestore_value(PyTrue)])
                   ELSE docs,
     result |-> outcome_ = "ok"]

\* bool(result and 'name' in result) for the GET of one document: a missing
\* document is an HTTP 404, that is {}
check_article_exists(docs, link, outcome_) ==
    outcome_ = "ok" /\ \E d \in docs : d.name = DocId(link)

\* get_recent_articles: [] when the request fails or parse_firestore_doc raises
\* (the except clause), otherwise the parsed documents; the page size is never
\* below the number of documents here
get_recent_articles(docs, outcome_) ==
    IF outcome_ # "ok" \/ \E d \in docs : ParseRaises(d)
    THEN {}
    ELSE { parse_firestore_doc(d) : d \in docs }

\* bool(value), as "not article.get('alerted', False)" takes it
Truthy(value) ==
    CASE value.py = "bool" -> value.v = PyTrue.v
      [] value.py = "int" -> value.v # << "0" >>
      [] value.py = "str" -> value.v # << >>
      [] OTHER -> FALSE

S_bullish == << "B","u","l","l","i","s","h" >>
S_bearish == << "B","e","a","r","i","s","h" >>
S_neutral == << "N","e","u","t","r","a","l" >>

\* get_unalerted_articles: of what get_recent_articles(1000) returns, the
\* articles with "not article.get('alerted', False) and
\* article.get('sentiment') != 'Neutral'"
get_unalerted_articles(docs, outcome_) ==
    { a \in get_recent_articles(docs, outcome_) :
        /\ ~(IF "alerted" \in DOMAIN a.fields THEN Truthy(a.fields.alerted) ELSE FALSE)
        /\ (IF "sentiment" \in DOMAIN a.fields THEN a.fields.sentiment ELSE PyNone)
               # PyStr(S_neutral) }

\* The collections a call of get_unalerted_articles can meet: per link no
\* document or one; its sentiment null (as insert_article stores it) or one of
\* the three; its alerted a Firestore boolean (the booleanValue that
\* parse_firestore_doc reads), or the value insert_article writes.
StoredCollections ==
    LET Doc(link, sentiment, alerted) ==
            [name |-> DocId(link),
             fields |-> [InsertFields(T_oil, D_none, "Test Source", link, Aware(1),
                                      PyNone, sentiment, Aware(1))
                           EXCEPT !.alerted = alerted]]
        Stored(link) ==
            { Doc(link, sentiment, alerted) :
                sentiment \in { PyNone, PyStr(S_bullish), PyStr(S_bearish), PyStr(S_neutral) },
                alerted \in { [type |-> "booleanValue", v |-> PyFalse.v],
                              [type |-> "booleanValue", v |-> PyTrue.v],
                              firestore_value(PyFalse) } }
    IN  { c1 \cup c2 :
            c1 \in { {} } \cup { {d} : d \in Stored(L1) },
            c2 \in { {} } \cup { {d} : d \in Stored(L2) } }

NoUnalerted == [called |-> FALSE, documents |-> {}, ok |-> FALSE, result |-> {}]

AdapterIdle == [pc |-> "idle", which |-> "none", entries |-> << >>, j |-> 0,
                articles_added |-> 0, before |-> {}]

NoQuery == [op |-> "none", link |-> << >>, ok |-> FALSE, exists |-> FALSE, articles |-> {}]

----------------------------------------------------------------------------
(* news_fetcher.py, newsapi_fetcher.py: the adapters that persist *)

CRUDE_KEYWORDS ==
    << <<"c","r","u","d","e"," ","o","i","l">>,
       <<"c","r","u","d","e">>,
       <<"o","i","l">>,
       <<"b","r","e","n","t">>,
       <<"w","t","i">>,
       <<"o","p","e","c">>,
       <<"o","p","e","c","+">>,
       <<"o","i","l"," ","p","r","i","c","e">>,
       <<"o","i","l"," ","f","u","t","u","r","e","s">>,
       <<"o","i","l"," ","m","a","r","k","e","t">>,
       <<"p","e","t","r","o","l","e","u","m">>,
       <<"b","a","r","r","e","l">>,
       <<"o","i","l"," ","p","r","o","d","u","c","t","i","o","n">>,
       <<"o","i","l"," ","s","u","p","p","l","y">>,
       <<"o","i","l"," ","i","n","v","e","n","t","o","r","i","e","s">>,
       <<"s","h","a","l","e"," ","o","i","l">>,
       <<"o","i","l"," ","d","r","i","l","l","i","n","g">>,
       <<"o","i","l"," ","r","e","f","i","n","e","r","y">>,
       <<"o","i","l"," ","r","i","g">>,
       <<"o","i","l"," ","p","i","p","e","l","i","n","e">> >>

\* variant: the text is searched as it is written
is_crude_related_cased(text) ==
    \E k \in 1..Len(CRUDE_KEYWORDS) : Contains(text, CRUDE_KEYWORDS[k])

\* any(keyword in text.lower() for keyword in CRUDE_KEYWORDS)
is_crude_related(text) ==
    \E k \in 1..Len(CRUDE_KEYWORDS) : Contains(Lower(text), CRUDE_KEYWORDS[k])

\* the texts a caller can hand to is_crude_related: a word, written in some
\* case, alone or inside a longer run of letters or between other words
RelevanceTexts ==
    LET words ==
            { << >>,
              << "o","i","l" >>, << "O","I","L" >>, << "O","i","l" >>, << "o"," ","i","l" >>,
              << "o","l","i" >>, << "g","a","s" >>, << "B","r","e","n","t" >>,
              << "W","T","I" >>, << "O","P","E","C","+" >>, << "c","r","u","d" >>,
              << "C","R","U","D","E" >>, << "S","h","a","l","e"," ","O","i","l" >> }
    IN  { pre \o w \o post :
            pre \in { << >>, << "B" >>, << "a"," " >> },
            w \in words,
            post \in { << >>, << "e","d" >>, << " ","x" >> } }

NoRelevance == [called |-> FALSE, text |-> << >>, result |-> FALSE]

RECURSIVE LStrip(_)
LStrip(text) ==
    IF text # << >> /\ Head(text) = " " THEN LStrip(Tail(text)) ELSE text

RECURSIVE RStrip(_)
RStrip(text) ==
    IF text # << >> /\ text[Len(text)] = " "
    THEN RStrip(SubSeq(text, 1, Len(text) - 1))
    ELSE text

\* str.strip()
Strip(text) == RStrip(LStrip(text))

T_gas == << "G","a","s" >>
T_up_padded == << " " >> \o T_up \o << " " >>

\* A feed entry or a NewsAPI article: description_null says the description is
\* JSON null; published is the date the source gives (Missing: none, Bad: one
\* that does not parse).
Entry(title, description, description_null, link, published) ==
    [title |-> title, description |-> description, description_null |-> description_null,
     link |-> link, published |-> published]

\* feed.entries[:limit_per_feed] of the feeds that answered, feed after feed
RssEntryLists ==
    { << Entry(T_up_padded, D_none, FALSE, L1, Aware(1)) >>,
      << Entry(T_oil, D_drop, FALSE, L1, Missing), Entry(T_oil, D_none, FALSE, NoLink, Aware(1)) >>,
      << Entry(T_gas, D_none, FALSE, L2, Aware(1)) >> }

\* data["articles"] of the NewsAPI answer
NewsApiLists ==
    { << Entry(T_oil, D_drop, FALSE, L1, Aware(1)) >>,
      << Entry(T_gas, D_none, TRUE, L2, Aware(1)), Entry(T_gas, D_none, FALSE, L2, Bad) >> }

\* the arguments of a direct insert_article call
StoreItems ==
    { [title |-> T_up, link |-> L1], [title |-> T_oil, link |-> L1], [title |-> T_oil, link |-> L2] }

\* the date the adapters store: the source's when it parses, otherwise
\* datetime.now(timezone.utc)
StoredDate(published, clock) ==
    IF published.k = "aware" THEN published ELSE Aware(clock)

----------------------------------------------------------------------------
(* State *)

NoResult == [st |-> "none", items |-> << >>]

\* last_fetch_time = None
NoTime == -1

ScriptIdle == [pc |-> "idle", current_time |-> NoTime, fetches |-> 0]

\* the dashboard sessions (one script thread each) of the process
Sessions == {"s1", "s2"}

SessionIdle == [pc |-> "idle", articles |-> << >>, i |-> 0, cutoff_time |-> 0,
                total_alerts_sent |-> 0]

PassLocalsReset ==
    /\ kind' = "none"
    /\ all_articles' = << >>
    /\ recent_articles' = << >>
    /\ articles' = << >>
    /\ i' = 0
    /\ cutoff_time' = 0
    /\ total_alerts_sent' = 0
    /\ outcome' = "none"
    /\ rss_result' = NoResult
    /\ api_result' = NoResult
    /\ filter_now' = 0
    /\ enrich_failed' = {}
    /\ pass_sent' = << >>
    /\ last_sends' = -1
    /\ last_attempts' = << >>
    /\ last_delivered' = {}
    /\ undelayed' = {}

Init ==
    /\ now = StartTime
    /\ alerted_articles_cache = {}
    /\ TELEGRAM_BOTS \in BotConfigs
    /\ GEMINI_AVAILABLE \in BOOLEAN
    /\ pc = "idle"
    /\ kind = "none"
    /\ all_articles = << >>
    /\ recent_articles = << >>
    /\ articles = << >>
    /\ i = 0
    /\ cutoff_time = 0
    /\ total_alerts_sent = 0
    /\ outcome = "none"
    /\ passes = 0
    /\ rss_result = NoResult
    /\ api_result = NoResult
    /\ filter_now = 0
    /\ enrich_failed = {}
    /\ ever_alerted = {}
    /\ confirmed_ids = {}
    /\ failed_ids = {}
    /\ pass_sent = << >>
    /\ last_sends = -1
    /\ last_attempts = << >>
    /\ last_delivered = {}
    /\ undelayed = {}
    /\ sessions = [s \in Sessions |-> SessionIdle]
    /\ invoked = {}
    /\ documents = {}
    /\ adapter = AdapterIdle
    /\ inserted_ok = {}
    /\ last_query = NoQuery
    /\ analysis = NoAnalysis
    /\ relevance = NoRelevance
    /\ unalerted = NoUnalerted
    /\ session_state = [articles_cache |-> << >>, last_fetch_time |-> NoTime,
                        auto_alerts_enabled |-> TRUE]
    /\ script = ScriptIdle

config == << TELEGRAM_BOTS, GEMINI_AVAILABLE >>
storeState == << documents, adapter, inserted_ok, last_query >>
pureCalls == << analysis, relevance, unalerted >>
dashState == << session_state, script >>
outside == << sessions, invoked, storeState, pureCalls, dashState >>   \* what a pass of this process leaves alone
alertState == << alerted_articles_cache, ever_alerted, confirmed_ids, failed_ids >>
sendLocals == << cutoff_time, total_alerts_sent, pass_sent, last_sends, last_attempts,
                 last_delivered, undelayed >>
fetchHistory == << recent_articles, rss_result, api_result, filter_now >>

----------------------------------------------------------------------------
(* send_automatic_alerts *)

\* The head of send_automatic_alerts(list): "if not articles: return 0",
\* otherwise the cutoff is computed once and the loop starts.  The fetch
\* stage is over: what it observed is dropped.
BeginSend(list) ==
    /\ articles' = list
    /\ all_articles' = << >>
    /\ recent_articles' = << >>
    /\ rss_result' = NoResult
    /\ api_result' = NoResult
    /\ filter_now' = 0
    /\ total_alerts_sent' = 0
    /\ pass_sent' = << >>
    /\ last_sends' = -1
    /\ last_attempts' = << >>
    /\ last_delivered' = {}
    /\ undelayed' = {}
    /\ IF list = << >>
       THEN /\ pc' = "done"
            /\ outcome' = "completed"
            /\ i' = 0
            /\ cutoff_time' = 0
       ELSE /\ pc' = "loop"
            /\ outcome' = "running"
            /\ i' = 1
            /\ cutoff_time' = now - AlertWindow

\* send_automatic_alerts called on a list of the caller's own
\* (send_alerts_for_recent, or the function itself).
StartDirect ==
    /\ pc = "idle"
    /\ passes < MaxPasses
    /\ \E list \in DirectBatches : BeginSend(list)
    /\ kind' = "direct"
    /\ passes' = passes + 1
    /\ UNCHANGED << now, config, outside, alertState, enrich_failed >>

\* One iteration of the loop up to the awaited send, to its "continue", or
\* through its except clause.
ProcessArticle ==
    /\ pc = "loop"
    /\ i <= Len(articles)
    /\ LET a == articles[i]
       IN  IF IterationRaises(a, cutoff_time)
           THEN /\ pc' = OnException(i).pc
                /\ i' = OnException(i).i
           ELSE IF /\ PassesCutoff(a, cutoff_time)
                   /\ SentimentAlerts(a)
                   /\ ~AlreadyAlerted(a, alerted_articles_cache)
           THEN /\ pc' = "sending"
                /\ i' = i
           ELSE /\ pc' = "loop"
                /\ i' = i + 1
    /\ last_sends' = -1
    /\ last_attempts' = << >>
    /\ last_delivered' = {}
    /\ UNCHANGED << now, config, outside, alertState, kind, all_articles, articles, cutoff_time,
                    total_alerts_sent, pass_sent, undelayed, outcome, passes, fetchHistory,
                    enrich_failed >>

\* send_enhanced_telegram_alert_multi returns; the article is marked and
\* counted only when at least one bot took the message, and then the pass
\* sleeps before it goes on.
SendReturns ==
    /\ pc = "sending"
    /\ \E delivers \in SUBSET ConfiguredBots(TELEGRAM_BOTS) :
         LET a == articles[i]
             successful_sends == send_enhanced_telegram_alert_multi(TELEGRAM_BOTS, delivers)
         IN  /\ last_sends' = successful_sends
             /\ last_attempts' = SendLoop(TELEGRAM_BOTS, delivers, 1, NoSends).attempts
             /\ last_delivered' = delivers
             /\ undelayed' = undelayed \cup delivers
             /\ pc' = AfterSend(successful_sends)
             /\ i' = IF AfterSend(successful_sends) = "sleeping" THEN i ELSE i + 1
             /\ IF SendConfirmed(successful_sends)
                THEN /\ alerted_articles_cache' = MarkAlerted(alerted_articles_cache, a)
                     /\ ever_alerted' = ever_alerted \cup (alerted_articles_cache' \ alerted_articles_cache)
                     /\ total_alerts_sent' = total_alerts_sent + 1
                     /\ pass_sent' = Append(pass_sent, << a.title, a.link >>)
                ELSE /\ UNCHANGED << alerted_articles_cache, ever_alerted,
                                     total_alerts_sent, pass_sent >>
             /\ confirmed_ids' = IF successful_sends > 0
                                 THEN confirmed_ids \cup { ArticleId(a) }
                                 ELSE confirmed_ids
             /\ failed_ids' = IF successful_sends = 0
                              THEN failed_ids \cup { ArticleId(a) }
                              ELSE failed_ids
    /\ UNCHANGED << now, config, outside, kind, all_articles, articles, cutoff_time,
                    outcome, passes, fetchHistory, enrich_failed >>

\* await asyncio.sleep(3) is over: on to the next article
Sleep ==
    /\ pc = "sleeping"
    /\ pc' = "loop"
    /\ i' = i + 1
    /\ undelayed' = {}
    /\ UNCHANGED << now, config, outside, alertState, kind, all_articles, articles, cutoff_time,
                    total_alerts_sent, pass_sent, last_sends, last_attempts, last_delivered,
                    outcome, passes, fetchHistory, enrich_failed >>

\* the loop is over: return total_alerts_sent
FinishSend ==
    /\ pc = "loop"
    /\ i > Len(articles)
    /\ pc' = "done"
    /\ outcome' = "completed"
    /\ UNCHANGED << now, config, outside, alertState, kind, all_articles, articles, i, sendLocals,
                    passes, fetchHistory, enrich_failed >>

\* the pass is over; its locals go away
Return ==
    /\ pc = "done"
    /\ pc' = "idle"
    /\ PassLocalsReset
    /\ UNCHANGED << now, config, outside, alertState, passes >>

\* time passes: between passes, over the AI calls (seen once they are done),
\* during the awaited send (nothing reads the clock between the send and the
\* end of the pass, so the seconds of the sleep are seen at the next of these)
Tick ==
    /\ \/ pc \in {"idle", "sending"}
       \/ pc = "enrich" /\ i > Len(articles)
    /\ now < MaxTime
    /\ now' = now + 1
    /\ UNCHANGED << config, outside, alertState, pc, kind, all_articles, articles, i, sendLocals,
                    outcome, passes, fetchHistory, enrich_failed >>

----------------------------------------------------------------------------
(* Orchestrators: auto_alerts.main and app.fetch_and_analyze_news *)

\* what an ingestion adapter call can do: raise, or return a list of items
AdapterOutcomes(feeds) ==
    { [raises |-> TRUE, items |-> << >>] }
        \cup { [raises |-> FALSE, items |-> f] : f \in feeds }

Fetched(r) == [st |-> IF r.raises THEN "raised" ELSE "ok", items |-> r.items]
NotCalled == [st |-> "not_called", items |-> << >>]

\* auto_alerts.main: the except clause of the one try block that holds the
\* whole pass ("Auto alert job failed").
JobFails ==
    /\ pc' = "done"
    /\ outcome' = "failed"
    /\ all_articles' = << >>
    /\ recent_articles' = << >>
    /\ articles' = << >>
    /\ i' = 0
    /\ filter_now' = 0

\* auto_alerts.main from the merge to the deduplicated list.
JobMerge(rss_articles, newsapi_articles) ==
    LET merged == rss_articles \o newsapi_articles
        recent == filter_last_hour_articles(merged, now)
    IN  /\ all_articles' = merged
        /\ recent_articles' = recent
        /\ filter_now' = now
        /\ IF recent = << >>
           THEN /\ pc' = "done"
                /\ outcome' = "no_recent"
                /\ articles' = << >>
                /\ i' = 0
           ELSE /\ pc' = "enrich"
                /\ outcome' = "running"
                /\ articles' = Deduplicate(recent)
                /\ i' = 1

\* auto_alerts.main: both adapter calls, the filter and the deduplication.
FetchJob ==
    /\ pc = "idle"
    /\ passes < MaxPasses
    /\ \E rss \in AdapterOutcomes(RssFeeds) :
         IF rss.raises
         THEN /\ rss_result' = Fetched(rss)
              /\ api_result' = NotCalled
              /\ JobFails
         ELSE \E api \in AdapterOutcomes(ApiFeeds) :
                /\ rss_result' = Fetched(rss)
                /\ api_result' = Fetched(api)
                /\ IF api.raises THEN JobFails ELSE JobMerge(rss.items, api.items)
    /\ kind' = "job"
    /\ passes' = passes + 1
    /\ UNCHANGED << now, config, outside, alertState, sendLocals, enrich_failed >>

\* app.fetch_and_analyze_news: each adapter call in a try of its own, then the
\* filter and the deduplication.
FetchDash ==
    /\ pc = "idle"
    /\ passes < MaxPasses
    /\ \E rss \in AdapterOutcomes(RssFeeds), api \in AdapterOutcomes(ApiFeeds) :
         LET merged == rss.items \o api.items
             recent == dash_filter_last_hour_articles(merged, now)
         IN  /\ rss_result' = Fetched(rss)
             /\ api_result' = Fetched(api)
             /\ all_articles' = merged
             /\ recent_articles' = recent
             /\ filter_now' = now
             /\ articles' = Deduplicate(recent)
    /\ pc' = "enrich"
    /\ outcome' = "running"
    /\ i' = 1
    /\ kind' = "dash"
    /\ passes' = passes + 1
    /\ UNCHANGED << now, config, outside, alertState, sendLocals, enrich_failed >>

\* One iteration of the AI analysis loop (the same in both orchestrators:
\* analyze_article_live never returns an empty summary or sentiment, so the
\* dashboard's "if summary and sentiment" always stores them).
Enrich ==
    /\ pc = "enrich"
    /\ i <= Len(articles)
    /\ \E ai \in AIOutcomes :
         LET r == analyze_article_live(articles[i].title, articles[i].description,
                                       GEMINI_AVAILABLE, ai)
         IN  /\ articles' = IF r = Raised
                             THEN articles      \* except: "AI analysis error"
                             ELSE [articles EXCEPT ![i] =
                                     [@ EXCEPT !.summary = r[1], !.sentiment = r[2]]]
             /\ enrich_failed' = IF EnrichmentFailed(GEMINI_AVAILABLE, ai)
                                 THEN enrich_failed \cup {i}
                                 ELSE enrich_failed
    /\ i' = i + 1
    /\ UNCHANGED << now, config, outside, alertState, pc, kind, all_articles, sendLocals,
                    outcome, passes, fetchHistory >>

\* auto_alerts.main: alerts_sent = await send_automatic_alerts(unique_articles)
JobAlerts ==
    /\ pc = "enrich"
    /\ kind = "job"
    /\ i > Len(articles)
    /\ BeginSend(articles)
    /\ UNCHANGED << now, config, outside, alertState, kind, passes, enrich_failed >>

\* app.py: "if st.session_state.auto_alerts_enabled and articles", after the
\* manual or the automatic fetch; the checkbox is the user's.
DashAlerts ==
    /\ pc = "enrich"
    /\ kind = "dash"
    /\ i > Len(articles)
    /\ \E auto_alerts_enabled \in BOOLEAN :
         IF auto_alerts_enabled /\ articles # << >>
         THEN BeginSend(articles)
         ELSE /\ pc' = "done"
              /\ outcome' = "no_alerts"
              /\ UNCHANGED << articles, i, sendLocals, all_articles, fetchHistory >>
    /\ UNCHANGED << now, config, outside, alertState, kind, passes, enrich_failed >>

----------------------------------------------------------------------------

Next ==
    \/ StartDirect
    \/ FetchJob
    \/ FetchDash
    \/ Enrich
    \/ JobAlerts
    \/ DashAlerts
    \/ ProcessArticle
    \/ SendReturns
    \/ Sleep
    \/ FinishSend
    \/ Return
    \/ Tick

Spec == Init /\ [][Next]_vars

----------------------------------------------------------------------------
(* Properties *)

\* the step invokes the Notifier for articles[i]
NotifierInvoked == pc = "loop" /\ pc' = "sending"

\* the step is one iteration of the loop of send_automatic_alerts
Processing == pc = "loop" /\ i <= Len(articles)

\* the step is the return of the Notifier
NotifierReturned == pc = "sending" /\ pc' \in {"loop", "sleeping"}

SameArticle(a, b) == a.title = b.title /\ a.link = b.link

\* C1: once an article identity has been added to alerted_articles_cache, the
\* Notifier is never invoked again for an article with that identity, in the
\* same pass or in a later one.
C1_NoAlertAfterMark ==
    [][NotifierInvoked => ArticleId(articles[i]) \notin ever_alerted]_vars

\* a later pass meets an alert-worthy article that an earlier pass has marked
C1_Witness ==
    /\ Processing
    /\ passes = 2
    /\ pass_sent = << >>
    /\ ArticleId(articles[i]) \in alerted_articles_cache
    /\ SentimentAlerts(articles[i])
    /\ PassesCutoff(articles[i], cutoff_time)

\* C2: every identity in alerted_articles_cache belongs to an article for
\* which a Notifier call has returned with at least one successful endpoint.
C2_MarkedOnlyWhenConfirmed == alerted_articles_cache \subseteq confirmed_ids

\* one identity is marked, and a send of another one failed on every endpoint
C2_Witness ==
    /\ alerted_articles_cache # {}
    /\ failed_ids \ alerted_articles_cache # {}

\* C3: when every endpoint fails for an article, its identity is not added to
\* the alerted set and it is not counted; and whenever the loop meets an
\* article whose sends have all failed so far, still Bullish or Bearish and
\* still inside the window, the Notifier is invoked for it again.
C3_FailureLeavesRetry ==
    [][ /\ (NotifierReturned /\ last_sends' = 0) =>
              /\ alerted_articles_cache' = alerted_articles_cache
              /\ total_alerts_sent' = total_alerts_sent
              /\ pass_sent' = pass_sent
        /\ ( /\ Processing
             /\ ArticleId(articles[i]) \in failed_ids \ confirmed_ids
             /\ articles[i].sentiment \in {"Bullish", "Bearish"}
             /\ articles[i].published_at.k = "aware"
             /\ articles[i].published_at.t > cutoff_time ) =>
              /\ NotifierInvoked
              /\ i' = i
      ]_vars

\* the first article of a second pass is sent again after its send failed in
\* the first pass
C3_Witness ==
    /\ pc = "sending"
    /\ passes = 2
    /\ i = 1
    /\ ArticleId(articles[1]) \in failed_ids \ confirmed_ids

\* C4: an iteration of the loop invokes the Notifier for its article if and
\* only if the article's sentiment is Bullish or Bearish, its published_at is
\* an aware timestamp after the cutoff the pass computed (one window before the
\* clock it read), and its identity is not in the alerted set at that moment;
\* and the Notifier is invoked from nowhere else.
C4_InvokedIffAlertWorthy ==
    [][ /\ Processing =>
              ( NotifierInvoked <=>
                  /\ articles[i].sentiment \in {"Bullish", "Bearish"}
                  /\ articles[i].published_at.k = "aware"
                  /\ articles[i].published_at.t > cutoff_time
                  /\ ArticleId(articles[i]) \notin alerted_articles_cache )
        /\ (pc' = "sending" /\ pc # "sending") => Processing
      ]_vars

\* a Neutral article was passed over and the next one is being sent
C4_Witness ==
    /\ pc = "sending"
    /\ i = 2
    /\ articles[1].sentiment = "Neutral"
    /\ articles[1].published_at.k = "aware"
    /\ articles[1].published_at.t > cutoff_time

NoRepeats(s) ==
    \A j, k \in 1..Len(s) : j # k => s[j] # s[k]

\* C5: in one pass no article (title and link) is counted as sent twice, and
\* the list an orchestrator hands on holds no article twice.
C5_AtMostOneAlertPerArticle ==
    /\ NoRepeats(pass_sent)
    /\ total_alerts_sent = Len(pass_sent)
    /\ kind \in {"job", "dash"} =>
          \A j, k \in 1..Len(articles) : j # k => ~SameArticle(articles[j], articles[k])

\* the list held the same article twice and one alert was counted for it
C5_Witness ==
    /\ pc = "done"
    /\ Len(articles) = 2
    /\ SameArticle(articles[1], articles[2])
    /\ pass_sent = << << articles[1].title, articles[1].link >> >>

\* the fetch stage of an orchestrator pass is over and no article is analysed yet
FetchStageDone ==
    /\ kind \in {"job", "dash"}
    /\ \/ pc = "enrich" /\ i = 1
       \/ pc = "done" /\ outcome = "no_recent"

\* the filter of an orchestrator pass has run and its result is still at hand
Filtered == kind \in {"job", "dash"} /\ filter_now # 0

KeywordHits(keywords, a) ==
    Cardinality({ k \in 1..Len(keywords) :
                    Contains(Lower(a.title \o << " " >> \o a.description), keywords[k]) })

KeywordMajority(a) ==
    IF KeywordHits(bullish_keywords, a) > KeywordHits(bearish_keywords, a) THEN "Bullish"
    ELSE IF KeywordHits(bearish_keywords, a) > KeywordHits(bullish_keywords, a) THEN "Bearish"
    ELSE "Neutral"

GenericSummaries ==
    { "Market indicators suggest positive outlook",
      "Market analysis indicates potential downward pressure",
      "Market sentiment remains neutral with mixed signals" }

ItemsOf(result) == IF result.st = "ok" THEN result.items ELSE << >>

\* C7: when an ingestion adapter raises, the pass is not aborted: the other
\* adapter is still called and its items are the merged input of the pass.
C7_AdapterFailureIsolated ==
    (kind \in {"job", "dash"} /\ "raised" \in {rss_result.st, api_result.st}) =>
        /\ outcome # "failed"
        /\ api_result.st # "not_called"
        /\ pc = "enrich" => all_articles = ItemsOf(rss_result) \o ItemsOf(api_result)

\* the indexes of the merged output that hold the article a
Copies(a) == { n \in 1..Len(all_articles) : SameArticle(all_articles[n], a) }

Survivors(a) == { m \in 1..Len(articles) : SameArticle(articles[m], a) }

Min(S) == CHOOSE n \in S : \A m \in S : n <= m

\* the filter's own reading of the clock sees the item inside the window
FreshAtFilter(a) ==
    /\ a.published_at.k = "aware"
    /\ filter_now - a.published_at.t < AlertWindow

C9_OldNeverNotified ==
    /\ pc = "sending" =>
          /\ articles[i].published_at.k = "aware"
          /\ (cutoff_time + AlertWindow) - articles[i].published_at.t <= AlertWindow
    /\ Filtered =>
          \A m \in 1..Len(recent_articles) :
              /\ recent_articles[m].published_at.k = "aware"
              /\ filter_now - recent_articles[m].published_at.t <= AlertWindow

\* the loop meets a Bullish or Bearish article, not yet alerted, that is more
\* than one window old
C9_Witness ==
    /\ Processing
    /\ SentimentAlerts(articles[i])
    /\ ~AlreadyAlerted(articles[i], alerted_articles_cache)
    /\ articles[i].published_at.k = "aware"
    /\ (cutoff_time + AlertWindow) - articles[i].published_at.t > AlertWindow

FilterAccepts(a) == \E m \in 1..Len(recent_articles) : recent_articles[m] = a

\* the cutoff test is what decides this iteration
CutoffDecides ==
    /\ Processing
    /\ articles[i].published_at.k = "aware"
    /\ SentimentAlerts(articles[i])
    /\ ~AlreadyAlerted(articles[i], alerted_articles_cache)

\* C10 as stated: an aware timestamp is accepted iff now - published_at <= window.
C10_AcceptsUpToWindow ==
    [][ /\ Filtered =>
              \A j \in 1..Len(all_articles) :
                  all_articles[j].published_at.k = "aware" =>
                      ( FilterAccepts(all_articles[j]) <=>
                          filter_now - all_articles[j].published_at.t <= AlertWindow )
        /\ CutoffDecides =>
              ( NotifierInvoked <=>
                  (cutoff_time + AlertWindow) - articles[i].published_at.t <= AlertWindow )
      ]_vars

\* C10, amended: an aware timestamp is accepted iff now - published_at < window:
\* an article published exactly one window ago is rejected, one whose timestamp
\* lies in the future is accepted.
C10_AcceptsBelowWindow ==
    [][ /\ Filtered =>
              \A j \in 1..Len(all_articles) :
                  all_articles[j].published_at.k = "aware" =>
                      ( FilterAccepts(all_articles[j]) <=>
                          filter_now - all_articles[j].published_at.t < AlertWindow )
        /\ CutoffDecides =>
              ( NotifierInvoked <=>
                  (cutoff_time + AlertWindow) - articles[i].published_at.t < AlertWindow )
      ]_vars

\* the filter has rejected an item published exactly one window ago and kept
\* one whose timestamp lies in the future
C10_Witness ==
    /\ Filtered
    /\ \E j \in 1..Len(all_articles) :
          /\ all_articles[j].published_at.k = "aware"
          /\ filter_now - all_articles[j].published_at.t = AlertWindow
          /\ ~FilterAccepts(all_articles[j])
    /\ \E j \in 1..Len(all_articles) :
          /\ all_articles[j].published_at.k = "aware"
          /\ filter_now - all_articles[j].published_at.t < 0
          /\ FilterAccepts(all_articles[j])

\* published_at is absent, empty, or a string fromisoformat rejects
Unparsable(a) == a.published_at.k \in {"missing", "bad"}

\* C11: an article whose published_at is missing, empty or unparsable is never
\* passed to the Notifier and never kept by filter_last_hour_articles (of the
\* scheduled job or of the dashboard).
C11_UnparsableNeverNotified ==
    /\ pc = "sending" => ~Unparsable(articles[i])
    /\ Filtered => \A m \in 1..Len(recent_articles) : ~Unparsable(recent_articles[m])

\* the loop meets a Bullish article, not yet alerted, whose published_at does
\* not parse
C11_Witness ==
    /\ Processing
    /\ articles[i].published_at.k = "bad"
    /\ SentimentAlerts(articles[i])
    /\ ~AlreadyAlerted(articles[i], alerted_articles_cache)

\* the bots that have both a token and a chat_id
Credentialed == { b \in Bots : TELEGRAM_BOTS[b].token /\ TELEGRAM_BOTS[b].chat_id }

\* C12: one call of send_enhanced_telegram_alert_multi tries every bot that has
\* both credentials exactly once, whether or not earlier sends failed, tries no
\* bot that misses one, and returns the number of bots whose send went through;
\* the alert is counted as sent iff that number is at least 1.
C12_AllConfiguredBotsTried ==
    [][ NotifierReturned =>
          /\ NoRepeats(last_attempts')
          /\ { last_attempts'[k] : k \in 1..Len(last_attempts') } = Credentialed
          /\ last_delivered' \subseteq Credentialed
          /\ last_sends' = Cardinality(last_delivered')
          /\ (total_alerts_sent' = total_alerts_sent + 1) <=> (last_sends' >= 1)
          /\ (total_alerts_sent' = total_alerts_sent) <=> (last_sends' = 0)
      ]_vars

\* the send to the first configured bot failed and the send to a later one
\* went through
C12_Witness ==
    /\ last_attempts = << 1, 3 >>
    /\ last_delivered = {3}
    /\ last_sends = 1
    /\ total_alerts_sent = 1

\* C23: within one pass of send_automatic_alerts no message is sent to a bot
\* that a message of the pass went through to unless the sleep has been taken
\* since; the sleep is the step that follows every Notifier call in which a
\* message went through to at least one bot.
C23_DelayBetweenDeliveries ==
    [][ /\ NotifierReturned =>
              /\ \A k \in 1..Len(last_attempts') : last_attempts'[k] \notin undelayed
              /\ last_delivered' # {} => pc' = "sleeping"
        /\ NotifierInvoked => undelayed = {}
      ]_vars

\* the second article of a pass is being sent, to the bots the first one was
\* sent to, after the first went through and the pass has slept
C23_Witness ==
    /\ pc = "sending"
    /\ i = 2
    /\ Len(pass_sent) = 1
    /\ undelayed = {}
    /\ ConfiguredBots(TELEGRAM_BOTS) = {1, 3}

\* title + link, read as one text
Concatenation(a) == a.title \o a.link

\* this iteration is decided by the alerted set alone
CacheDecides ==
    /\ Processing
    /\ PassesCutoff(articles[i], cutoff_time)
    /\ SentimentAlerts(articles[i])

\* C26 as stated: two items are the same item iff they have the same title and
\* the same link: every item the freshness filter kept survives the
\* deduplication in a copy with its title and link, and in the first pass of a
\* process an alert is held back by the alerted set only when an alert with
\* that title and link was counted.
C26_SameIffSameTitleAndLink ==
    [][ /\ FetchStageDone =>
              \A j \in 1..Len(recent_articles) :
                  \E m \in 1..Len(articles) : SameArticle(articles[m], recent_articles[j])
        /\ (CacheDecides /\ passes = 1 /\ ~NotifierInvoked) =>
              \E k \in 1..Len(pass_sent) :
                  pass_sent[k] = << articles[i].title, articles[i].link >>
      ]_vars

\* C26, amended: two items are the same item iff the text title + link is the
\* same: of the items the freshness filter kept, exactly one per text
\* survives the deduplication, and an alert is held back by the alerted set
\* iff a send was confirmed for an article with that text, whatever its title
\* and its link are.
C26_SameIffSameConcatenation ==
    [][ /\ FetchStageDone =>
              /\ \A j \in 1..Len(recent_articles) :
                    \E m \in 1..Len(articles) :
                        Concatenation(articles[m]) = Concatenation(recent_articles[j])
              /\ \A m, n \in 1..Len(articles) :
                    m # n => Concatenation(articles[m]) # Concatenation(articles[n])
              /\ \A m \in 1..Len(articles) :
                    \E j \in 1..Len(recent_articles) : articles[m] = recent_articles[j]
        /\ CacheDecides =>
              ( ~NotifierInvoked <=>
                  << "md5", Concatenation(articles[i]) >> \in confirmed_ids )
      ]_vars

\* the filter kept two articles that differ in title and in link, and one of
\* them survived
C26_Witness ==
    /\ FetchStageDone
    /\ Len(recent_articles) = 2
    /\ recent_articles[1].title # recent_articles[2].title
    /\ recent_articles[1].link # recent_articles[2].link
    /\ articles = << recent_articles[1] >>

\* processing the article ends in the except clause of the loop
Fails(a) ==
    \/ a.published_at.k \in {"bad", "naive"}
    \/ /\ a.published_at.k = "aware"
       /\ a.published_at.t > cutoff_time
       /\ a.sentiment \notin {"Bullish", "Bearish", "Neutral", Unset}

\* C27: an exception raised while one article is processed (a timestamp that
\* does not parse or cannot be compared, a sentiment that is no string, a send
\* that fails on every bot) leaves the alerted set and the count as they were
\* and the pass goes on with the next article; the loop ends only behind the
\* last article; and the count grows exactly with the alerted set.
C27_ExceptionDoesNotAbort ==
    [][ /\ (Processing /\ Fails(articles[i])) =>
              /\ pc' = "loop"
              /\ i' = i + 1
              /\ outcome' = "running"
              /\ alerted_articles_cache' = alerted_articles_cache
              /\ total_alerts_sent' = total_alerts_sent
        /\ (NotifierReturned /\ last_delivered' = {}) =>
              /\ pc' = "loop"
              /\ i' = i + 1
              /\ outcome' = "running"
              /\ alerted_articles_cache' = alerted_articles_cache
              /\ total_alerts_sent' = total_alerts_sent
        /\ (pc \in {"loop", "sending", "sleeping"} /\ pc' = "done") =>
              /\ i > Len(articles)
              /\ outcome' = "completed"
        /\ pc \in {"loop", "sending", "sleeping"} =>
              total_alerts_sent' - total_alerts_sent
                  = Cardinality(alerted_articles_cache' \ alerted_articles_cache)
      ]_vars

\* the first article of the list held a sentiment that is no string, and the
\* second one is being sent
C27_Witness ==
    /\ pc = "sending"
    /\ i = 2
    /\ articles[1].sentiment = NotAString
    /\ PassesCutoff(articles[1], cutoff_time)

----------------------------------------------------------------------------
(* Two dashboard sessions of one process *)

\* Each session's script thread runs asyncio.run(send_automatic_alerts(articles))
\* on the articles it fetched and analysed; the module telegram_alerts, and
\* with it alerted_articles_cache, is the same for both.  A session runs up to
\* the awaited send without giving way; the await is where the other goes on.

\* the analysed lists a session can hold
SessionBatches ==
    { << D_bull >>,
      << D_bull, D_bear >>,
      << D_bear, D_bull >>,
      << D_neutral, D_bull >> }

passState == << pc, kind, all_articles, articles, i, sendLocals, outcome, passes,
               fetchHistory, enrich_failed >>

\* app.py: alerts_sent = asyncio.run(send_automatic_alerts(articles)), up to
\* the start of the loop
SessionStart(s) ==
    /\ sessions[s].pc = "idle"
    /\ \E list \in SessionBatches :
         sessions' = [sessions EXCEPT ![s] =
                         [pc |-> "loop", articles |-> list, i |-> 1,
                          cutoff_time |-> now - AlertWindow, total_alerts_sent |-> 0]]
    /\ UNCHANGED << now, config, alertState, passState, invoked, storeState, pureCalls,
                    dashState >>

\* one iteration of the loop up to the awaited send, or to its "continue"
SessionProcess(s) ==
    /\ sessions[s].pc = "loop"
    /\ sessions[s].i <= Len(sessions[s].articles)
    /\ LET a == sessions[s].articles[sessions[s].i]
       IN  IF /\ PassesCutoff(a, sessions[s].cutoff_time)
              /\ SentimentAlerts(a)
              /\ ~AlreadyAlerted(a, alerted_articles_cache)
           THEN /\ sessions' = [sessions EXCEPT ![s].pc = "sending"]
                /\ invoked' = invoked \cup { << s, ArticleId(a) >> }
           ELSE /\ sessions' = [sessions EXCEPT ![s].i = @ + 1]
                /\ UNCHANGED invoked
    /\ UNCHANGED << now, config, alertState, passState, storeState, pureCalls, dashState >>

\* the awaited send returns to the session (and, after a confirmed send, the
\* sleep: the cache is written before it, so nothing new can happen over it)
SessionSendReturns(s) ==
    /\ sessions[s].pc = "sending"
    /\ \E delivers \in SUBSET ConfiguredBots(TELEGRAM_BOTS) :
         LET a == sessions[s].articles[sessions[s].i]
             successful_sends == send_enhanced_telegram_alert_multi(TELEGRAM_BOTS, delivers)
         IN  IF SendConfirmed(successful_sends)
             THEN /\ alerted_articles_cache' = MarkAlerted(alerted_articles_cache, a)
                  /\ ever_alerted' = ever_alerted \cup { ArticleId(a) }
                  /\ confirmed_ids' = confirmed_ids \cup { ArticleId(a) }
                  /\ sessions' = [sessions EXCEPT ![s].pc = "loop", ![s].i = @ + 1,
                                                  ![s].total_alerts_sent = @ + 1]
                  /\ UNCHANGED failed_ids
             ELSE /\ failed_ids' = failed_ids \cup { ArticleId(a) }
                  /\ sessions' = [sessions EXCEPT ![s].pc = "loop", ![s].i = @ + 1]
                  /\ UNCHANGED << alerted_articles_cache, ever_alerted, confirmed_ids >>
    /\ UNCHANGED << now, config, passState, invoked, storeState, pureCalls,
                    dashState >>

\* the loop is over: return total_alerts_sent
SessionFinish(s) ==
    /\ sessions[s].pc = "loop"
    /\ sessions[s].i > Len(sessions[s].articles)
    /\ sessions' = [sessions EXCEPT ![s].pc = "done"]
    /\ UNCHANGED << now, config, alertState, passState, invoked, storeState, pureCalls,
                    dashState >>

SessionsNext ==
    \E s \in Sessions :
        \/ SessionStart(s)
        \/ SessionProcess(s)
        \/ SessionSendReturns(s)
        \/ SessionFinish(s)

SpecSessions == Init /\ [][SessionsNext]_vars

\* C13: when the passes of two sessions hold the same alert-worthy article, the
\* Notifier is invoked for that identity by at most one of the two (a second
\* invocation after a send that failed on every endpoint is a retry and is
\* not counted).
C13_OneSessionInvokes ==
    \A x, y \in invoked :
        (x[2] = y[2] /\ x[2] \notin failed_ids) => x[1] = y[1]

----------------------------------------------------------------------------
(* The scheduled job, run after run *)

\* asyncio.run(main()) returns and the process of this run ends: the next run
\* of auto_alerts.py is a new process, which imports telegram_alerts afresh
\* (alerted_articles_cache = set()), a quarter of an hour after this one.
JobExit ==
    /\ pc = "done"
    /\ now < MaxTime
    /\ now' = now + 1
    /\ pc' = "idle"
    /\ PassLocalsReset
    /\ alerted_articles_cache' = {}
    /\ UNCHANGED << config, outside, ever_alerted, confirmed_ids, failed_ids, passes >>

JobRunsNext ==
    \/ FetchJob
    \/ Enrich
    \/ JobAlerts
    \/ ProcessArticle
    \/ SendReturns
    \/ Sleep
    \/ FinishSend
    \/ JobExit
    \/ Tick

SpecJobRuns == Init /\ [][JobRunsNext]_vars

\* C14: a run of the scheduled job never invokes the Notifier for an article
\* for which a send was confirmed in an earlier run.
C14_NoAlertAcrossRuns ==
    [][NotifierInvoked => ArticleId(articles[i]) \notin confirmed_ids]_vars

----------------------------------------------------------------------------
(* The document store and its callers *)

storeFrame == << now, config, alertState, passState, sessions, invoked, pureCalls, dashState >>

\* a caller inserts an article (test_database_connection does, for one)
InsertArticle ==
    /\ adapter.pc = "idle"
    /\ \E item \in StoreItems, o \in RequestOutcomes :
         LET r == insert_article(documents, item.title, D_none, "Test Source", item.link,
                                 Aware(1), Aware(now), o)
         IN  /\ documents' = r.documents
             /\ inserted_ok' = IF r.result THEN inserted_ok \cup { item.link } ELSE inserted_ok
    /\ last_query' = NoQuery
    /\ UNCHANGED << storeFrame, adapter >>

\* a caller marks a stored article as alerted, by the id get_recent_articles gave
MarkArticleAlerted ==
    /\ adapter.pc = "idle"
    /\ \E d \in documents, o \in RequestOutcomes :
         /\ documents' = mark_article_alerted(documents, d.name, o).documents
         /\ inserted_ok' = IF Applied(o)
                           THEN { l \in inserted_ok : DocId(l) # d.name }
                           ELSE inserted_ok
    /\ last_query' = NoQuery
    /\ UNCHANGED << storeFrame, adapter >>

CheckArticleExists ==
    /\ adapter.pc = "idle"
    /\ \E link \in {L1, L2}, o \in {"ok", "error"} :
         last_query' = [op |-> "exists", link |-> link, ok |-> o = "ok",
                        exists |-> check_article_exists(documents, link, o), articles |-> {}]
    /\ UNCHANGED << storeFrame, documents, adapter, inserted_ok >>

GetRecentArticles ==
    /\ adapter.pc = "idle"
    /\ \E o \in {"ok", "error"} :
         last_query' = [op |-> "recent", link |-> << >>, ok |-> o = "ok", exists |-> FALSE,
                        articles |-> get_recent_articles(documents, o)]
    /\ UNCHANGED << storeFrame, documents, adapter, inserted_ok >>

\* fetch_news up to the loop over the entries; no entries when no feed answers
FetchNewsStart ==
    /\ adapter.pc = "idle"
    /\ \E entries \in { << >> } \cup RssEntryLists :
         adapter' = [pc |-> "entries", which |-> "rss", entries |-> entries, j |-> 1,
                     articles_added |-> 0, before |-> documents]
    /\ last_query' = NoQuery
    /\ UNCHANGED << storeFrame, documents, inserted_ok >>

\* fetch_newsapi_articles up to the loop over the articles; none when the key
\* is missing or the API answers with an error ("return 0")
FetchNewsApiStart ==
    /\ adapter.pc = "idle"
    /\ \E entries \in { << >> } \cup NewsApiLists :
         adapter' = [pc |-> "entries", which |-> "newsapi", entries |-> entries, j |-> 1,
                     articles_added |-> 0, before |-> documents]
    /\ last_query' = NoQuery
    /\ UNCHANGED << storeFrame, documents, inserted_ok >>

\* "continue": on to the next entry
SkipEntry ==
    /\ adapter' = [adapter EXCEPT !.j = @ + 1]
    /\ UNCHANGED << documents, inserted_ok >>

\* the existence check and, when it answers False, the insert
CheckAndInsert(title, description, source, link, published) ==
    \E o1 \in {"ok", "error"} :
        IF check_article_exists(documents, link, o1)
        THEN SkipEntry
        ELSE \E o2 \in RequestOutcomes :
               LET r == insert_article(documents, title, description, source, link,
                                       StoredDate(published, now), Aware(now), o2)
               IN  /\ documents' = r.documents
                   /\ inserted_ok' = IF r.result THEN inserted_ok \cup { link }
                                     ELSE inserted_ok
                   /\ adapter' = [adapter EXCEPT
                                    !.j = @ + 1,
                                    !.articles_added = IF r.result THEN @ + 1 ELSE @]

\* fetch_news: one entry of a feed
FetchNewsEntry ==
    /\ adapter.pc = "entries"
    /\ adapter.which = "rss"
    /\ adapter.j <= Len(adapter.entries)
    /\ LET e == adapter.entries[adapter.j]
           title == Strip(e.title)
           description == Strip(e.description)
           link == Strip(e.link)
       IN  IF title = << >> \/ link = << >>
           THEN SkipEntry
           ELSE IF ~is_crude_related(title \o << " " >> \o description)
           THEN SkipEntry
           ELSE CheckAndInsert(title, description, "OilPrice", link, e.published)
    /\ UNCHANGED << storeFrame, last_query >>

\* fetch_newsapi_articles: one article of the answer; a null description
\* raises on .strip() and the article is passed over
FetchNewsApiEntry ==
    /\ adapter.pc = "entries"
    /\ adapter.which = "newsapi"
    /\ adapter.j <= Len(adapter.entries)
    /\ LET e == adapter.entries[adapter.j]
           title == Strip(e.title)
           link == Strip(e.link)
       IN  IF e.description_null
           THEN SkipEntry
           ELSE IF title = << >> \/ link = << >>
           THEN SkipEntry
           ELSE CheckAndInsert(title, Strip(e.description), "NewsAPI - Unknown", link,
                               e.published)
    /\ UNCHANGED << storeFrame, last_query >>

\* return articles_added
AdapterReturn ==
    /\ adapter.pc = "entries"
    /\ adapter.j > Len(adapter.entries)
    /\ adapter' = AdapterIdle
    /\ UNCHANGED << storeFrame, documents, inserted_ok, last_query >>

StoreNext ==
    \/ InsertArticle
    \/ MarkArticleAlerted
    \/ CheckArticleExists
    \/ GetRecentArticles
    \/ FetchNewsStart
    \/ FetchNewsApiStart
    \/ FetchNewsEntry
    \/ FetchNewsApiEntry
    \/ AdapterReturn

SpecStore == Init /\ [][StoreNext]_vars

HasLink(d) == "link" \in DOMAIN d.fields

\* C15: the store holds at most one article document per link value, and the
\* name of a document that carries a link is the digest of that link alone.
C15_OneDocumentPerLink ==
    /\ \A d1, d2 \in documents :
          (HasLink(d1) /\ HasLink(d2) /\ d1.fields.link = d2.fields.link) => d1 = d2
    /\ \A d \in documents : HasLink(d) => d.name = DocId(d.fields.link.v)

\* a second insert with the same link and another title has replaced the
\* document the first insert stored
C15_Witness ==
    /\ adapter.pc = "entries"
    /\ \E d1 \in adapter.before, d2 \in documents :
          /\ HasLink(d1) /\ HasLink(d2)
          /\ d1.fields.link = d2.fields.link
          /\ d1.fields.title # d2.fields.title
    /\ Cardinality({ d \in documents : HasLink(d) /\ d.fields.link.v = L1 }) = 1

\* C16: a run of fetch_news or fetch_newsapi_articles leaves every document
\* that was stored when it began as it was, whether or not the requests of its
\* existence checks fail.
C16_StoredArticleUntouched ==
    adapter.pc # "idle" => adapter.before \subseteq documents

\* C17: once insert_article has returned True for a link, check_article_exists
\* for that link returns True when its request does not fail, and
\* get_recent_articles, when its request does not fail, returns an article
\* with that link.
C17_InsertRoundTrip ==
    /\ (last_query.op = "exists" /\ last_query.ok /\ last_query.link \in inserted_ok)
          => last_query.exists
    /\ (last_query.op = "recent" /\ last_query.ok)
          => \A l \in inserted_ok :
                \E a \in last_query.articles :
                    "link" \in DOMAIN a.fields /\ a.fields.link = PyStr(l)

\* the text the relevance filter reads of a stored article
StoredText(d) == d.fields.title.v \o << " " >> \o d.fields.description.v

\* C22: every article document an ingestion path has stored passes the
\* relevance filter on its title and description, whether fetch_news or
\* fetch_newsapi_articles stored it.
C22_PersistedIsRelevant ==
    \A d \in documents :
        "title" \in DOMAIN d.fields => is_crude_related(StoredText(d))

\* C18: no item with an empty link is in the list an orchestrator
\* deduplicates, enriches and hands to send_automatic_alerts.
C18_EmptyLinkExcluded ==
    kind \in {"job", "dash"} =>
        \A m \in 1..Len(articles) : articles[m].link # NoLink

----------------------------------------------------------------------------
(* app.py: the script of one dashboard session, run after run *)

\* what fetch_and_analyze_news can return: the analysed articles of the last
\* hour, none when no adapter gave a fresh one
DashFetchResults == { << >>, << D_bull >>, << D_neutral, D_bear >> }

\* send_automatic_alerts(list) as a whole, from article j on; ok holds the
\* indexes of the articles whose message goes through to at least one bot
RECURSIVE AlertPass(_, _, _, _, _)
AlertPass(list, j, cutoff, ok, r) ==
    IF j > Len(list) THEN r
    ELSE IF /\ PassesCutoff(list[j], cutoff)
            /\ SentimentAlerts(list[j])
            /\ ~AlreadyAlerted(list[j], r.cache)
         THEN IF j \in ok
              THEN AlertPass(list, j + 1, cutoff, ok,
                             [r EXCEPT !.cache = MarkAlerted(@, list[j]),
                                       !.confirmed = @ \cup { ArticleId(list[j]) }])
              ELSE AlertPass(list, j + 1, cutoff, ok,
                             [r EXCEPT !.failed = @ \cup { ArticleId(list[j]) }])
         ELSE AlertPass(list, j + 1, cutoff, ok, r)

\* articles = fetch_and_analyze_news(); the two session_state assignments;
\* "if st.session_state.auto_alerts_enabled and articles:" the alerts
FetchAndAlert(fetch_time) ==
    \E list \in DashFetchResults, ok \in SUBSET {1, 2} :
        LET r == IF session_state.auto_alerts_enabled /\ list # << >>
                 THEN AlertPass(list, 1, now - AlertWindow, ok,
                                [cache |-> alerted_articles_cache, confirmed |-> confirmed_ids,
                                 failed |-> failed_ids])
                 ELSE [cache |-> alerted_articles_cache, confirmed |-> confirmed_ids,
                       failed |-> failed_ids]
        IN  /\ session_state' = [session_state EXCEPT !.articles_cache = list,
                                                      !.last_fetch_time = fetch_time]
            /\ alerted_articles_cache' = r.cache
            /\ ever_alerted' = ever_alerted \cup r.cache
            /\ confirmed_ids' = r.confirmed
            /\ failed_ids' = r.failed

dashFrame == << config, passState, sessions, invoked, storeState, pureCalls >>

\* A script run starts (a page load, or a widget the user touched): the
\* checkbox gives auto_alerts_enabled, the button is pressed or not.
RunStart ==
    /\ script.pc = "idle"
    /\ \E pressed, enabled \in BOOLEAN :
         /\ script' = [pc |-> IF pressed THEN "manual" ELSE "autocheck",
                       current_time |-> NoTime, fetches |-> 0]
         /\ session_state' = [session_state EXCEPT !.auto_alerts_enabled = enabled]
    /\ UNCHANGED << now, alertState, dashFrame >>

\* if st.sidebar.button("Fetch & Send Multi-Bot Alerts"): ...
ManualFetch ==
    /\ script.pc = "manual"
    /\ FetchAndAlert(now)
    /\ script' = [script EXCEPT !.pc = "autocheck", !.fetches = @ + 1]
    /\ UNCHANGED << now, dashFrame >>

\* the three tests of "Auto-fetch on page load"
should_auto_fetch(articles_cache, last_fetch_time, current_time) ==
    \/ articles_cache = << >>
    \/ last_fetch_time = NoTime
    \/ current_time - last_fetch_time > FetchInterval

\* current_time = datetime.now(); should_auto_fetch is worked out; without a
\* fetch the run goes on to render the cache and ends
AutoFetchCheck ==
    /\ script.pc = "autocheck"
    /\ script' = IF should_auto_fetch(session_state.articles_cache,
                                      session_state.last_fetch_time, now)
                 THEN [script EXCEPT !.pc = "autofetch", !.current_time = now]
                 ELSE ScriptIdle
    /\ UNCHANGED << now, alertState, session_state, dashFrame >>

\* if should_auto_fetch: ...; then the cache is rendered and the run ends
AutoFetch ==
    /\ script.pc = "autofetch"
    /\ FetchAndAlert(script.current_time)
    /\ script' = [script EXCEPT !.pc = "rendered", !.fetches = @ + 1]
    /\ UNCHANGED << now, dashFrame >>

\* the run is over; the session waits for the next one
RunEnd ==
    /\ script.pc = "rendered"
    /\ script' = ScriptIdle
    /\ UNCHANGED << now, alertState, session_state, dashFrame >>

\* time passes between two script runs
DashTick ==
    /\ script.pc = "idle"
    /\ now < MaxTime
    /\ now' = now + 1
    /\ UNCHANGED << alertState, dashState, dashFrame >>

DashNext ==
    \/ RunStart
    \/ ManualFetch
    \/ AutoFetchCheck
    \/ AutoFetch
    \/ RunEnd
    \/ DashTick

SpecDash == Init /\ [][DashNext]_vars

\* C24: the automatic fetch of a script run starts only when no fetch has been
\* done in the session yet or the last one is more than 15 minutes old, and a
\* script run fetches at most once, whatever its manual fetch returned.
C24_AutoFetchOnlyWhenDue ==
    /\ script.pc = "autofetch" =>
          \/ session_state.last_fetch_time = NoTime
          \/ script.current_time - session_state.last_fetch_time > FetchInterval
    /\ script.fetches <= 1

----------------------------------------------------------------------------
(* get_unalerted_articles on its own *)

\* get_unalerted_articles()
GetUnalertedArticles ==
    /\ ~unalerted.called
    /\ \E docs \in StoredCollections, o \in {"ok", "error"} :
         unalerted' = [called |-> TRUE, documents |-> docs, ok |-> o = "ok",
                       result |-> get_unalerted_articles(docs, o)]
    /\ UNCHANGED << now, config, alertState, passState, sessions, invoked, storeState,
                    analysis, relevance, dashState >>

SpecUnalerted == Init /\ [][GetUnalertedArticles]_vars

----------------------------------------------------------------------------
(* is_crude_related on its own *)

\* is_crude_related(text)
IsCrudeRelated ==
    /\ ~relevance.called
    /\ \E text \in RelevanceTexts :
         relevance' = [called |-> TRUE, text |-> text, result |-> is_crude_related(text)]
    /\ UNCHANGED << now, config, alertState, passState, sessions, invoked, storeState,
                    analysis, unalerted, dashState >>

SpecRelevance == Init /\ [][IsCrudeRelated]_vars

\* the keyword occurs in the text at some position
Occurs(kw, text) ==
    \E p \in 1..(Len(text) - Len(kw) + 1) : SubSeq(text, p, p + Len(kw) - 1) = kw

\* C21: is_crude_related(text) is true if and only if at least one keyword of
\* CRUDE_KEYWORDS occurs as a substring of the lower-cased text; the answer
\* does not depend on the case the text is written in, no word boundary is
\* asked for, and the empty text yields false.
C21_KeywordSubstringIff ==
    relevance.called =>
        /\ relevance.result <=>
              \E k \in 1..Len(CRUDE_KEYWORDS) : Occurs(CRUDE_KEYWORDS[k], Lower(relevance.text))
        /\ relevance.result = is_crude_related(Lower(relevance.text))
        /\ relevance.text = << >> => ~relevance.result

\* "BOILed": the keyword in upper case inside a longer word
C21_Witness ==
    /\ relevance.called
    /\ relevance.text = << "B","O","I","L","e","d" >>
    /\ relevance.result

----------------------------------------------------------------------------
(* analyze_article_live on its own *)

\* summary, sentiment = analyze_article_live(title, description)
Analyze ==
    /\ ~analysis.called
    /\ \E title \in AnalyzeTitles, description \in AnalyzeDescriptions, ai \in AIOutcomes :
         analysis' = [called |-> TRUE, title |-> title, description |-> description,
                      ai |-> ai,
                      result |-> analyze_article_live(title, description,
                                                      GEMINI_AVAILABLE, ai)]
    /\ UNCHANGED << now, config, alertState, passState, sessions, invoked, storeState,
                    relevance, unalerted, dashState >>

AnalyzeNext == Analyze

SpecAnalyze == Init /\ [][AnalyzeNext]_vars

\* C19: every call of analyze_article_live returns a pair (summary,
\* sentiment), whatever the title and the description are and whether or not
\* the AI call fails.
C19_AnalyzeNeverRaises ==
    analysis.called =>
        /\ analysis.result # Raised
        /\ Len(analysis.result) = 2

\* the AI call has failed and the description is no string: the fallback's own
\* except clause has answered
C19_Witness ==
    /\ analysis.called
    /\ GEMINI_AVAILABLE
    /\ analysis.ai.raises
    /\ ~IsStr(analysis.description)
    /\ analysis.result = << "Analysis unavailable", "Neutral" >>

Sentiments == { "Bullish", "Bearish", "Neutral" }

\* what analyze_article_live returns over the arguments of every kind: strings
\* and values that are none, provider configured or not, AI call raising or
\* answering
AnalysisResults ==
    { analyze_article_live(t, d, av, ai) :
        t \in AnalyzeTitles, d \in AnalyzeDescriptions, av \in BOOLEAN, ai \in AIOutcomes }

\* C20: every sentiment analyze_article_live returns, on the AI path, the
\* keyword path and the error path, is Bullish, Bearish or Neutral, and the
\* sentiment of every article of an orchestrator's pass is unset or one of the
\* three.
C20_SentimentOneOfThree ==
    /\ \A r \in AnalysisResults : r[2] \in Sentiments
    /\ kind \in {"job", "dash"} =>
          \A m \in 1..Len(articles) : articles[m].sentiment \in Sentiments \cup { Unset }

\* the AI has answered with a sentiment text that names neither Bullish nor
\* Bearish, and the article carries Neutral
C20_Witness ==
    /\ pc = "enrich"
    /\ GEMINI_AVAILABLE
    /\ i = 2
    /\ 1 \notin enrich_failed
    /\ articles[1].sentiment = "Neutral"

====
